---- MODULE Spec2Model ----
(***************************************************************************)
(* Model of Led_cal.py, the solar light runtime calculator: the energy     *)
(* accounting over the four dimming stages and the 24 hour state-of-charge *)
(* simulation.  The script computes with Python floats (IEEE-754 binary64, *)
(* round to nearest even); the model keeps that arithmetic, because sums   *)
(* and quotients of floats are rounded at every operation.                 *)
(***************************************************************************)
EXTENDS Integers, Sequences, FiniteSets, TLC

(***************************************************************************)
(* Natural numbers of arbitrary size, as little-endian sequences of limbs  *)
(* in base 2^14 without leading zero limbs (zero is the empty sequence).   *)
(* They carry the 53 bit significands of the floats.                       *)
(***************************************************************************)
LimbBits == 14

Base == 2^LimbBits

RECURSIVE NNorm(_)
NNorm(a) ==
  IF a = <<>> THEN <<>>
  ELSE IF a[Len(a)] = 0 THEN NNorm(SubSeq(a, 1, Len(a) - 1))
  ELSE a

RECURSIVE NFromInt(_)
NFromInt(n) ==
  IF n = 0 THEN <<>> ELSE <<n % Base>> \o NFromInt(n \div Base)

RECURSIVE NAddC(_, _, _)
NAddC(a, b, c) ==
  IF a = <<>> /\ b = <<>> THEN (IF c = 0 THEN <<>> ELSE <<c>>)
  ELSE LET x == IF a = <<>> THEN 0 ELSE Head(a)
           y == IF b = <<>> THEN 0 ELSE Head(b)
           s == x + y + c
       IN  <<s % Base>> \o NAddC(IF a = <<>> THEN <<>> ELSE Tail(a),
                                 IF b = <<>> THEN <<>> ELSE Tail(b),
                                 s \div Base)

NAdd(a, b) == NAddC(a, b, 0)

RECURSIVE NSubB(_, _, _)
NSubB(a, b, c) ==
  IF a = <<>> THEN <<>>
  ELSE LET y == IF b = <<>> THEN 0 ELSE Head(b)
           d == Head(a) - y - c
       IN  <<d % Base>> \o NSubB(Tail(a),
                                 IF b = <<>> THEN <<>> ELSE Tail(b),
                                 IF d < 0 THEN 1 ELSE 0)

\* a - b for a >= b
NSub(a, b) == NNorm(NSubB(a, b, 0))

RECURSIVE NCmpFrom(_, _, _)
NCmpFrom(a, b, i) ==
  IF i = 0 THEN 0
  ELSE IF a[i] < b[i] THEN -1
  ELSE IF a[i] > b[i] THEN 1
  ELSE NCmpFrom(a, b, i - 1)

\* -1, 0 or 1 as a < b, a = b, a > b
NCmp(a, b) ==
  IF Len(a) < Len(b) THEN -1
  ELSE IF Len(a) > Len(b) THEN 1
  ELSE NCmpFrom(a, b, Len(a))

RECURSIVE NMulSmallC(_, _, _)
NMulSmallC(a, k, c) ==
  IF a = <<>> THEN (IF c = 0 THEN <<>> ELSE <<c>>)
  ELSE LET p == Head(a) * k + c
       IN  <<p % Base>> \o NMulSmallC(Tail(a), k, p \div Base)

\* a * k for 0 <= k <= Base
NMulSmall(a, k) == IF k = 0 THEN <<>> ELSE NMulSmallC(a, k, 0)

NShiftLimbs(a, n) ==
  IF a = <<>> THEN <<>> ELSE [i \in 1..n |-> 0] \o a

RECURSIVE NMul(_, _)
NMul(a, b) ==
  IF b = <<>> \/ a = <<>> THEN <<>>
  ELSE NAdd(NMulSmall(a, Head(b)), NShiftLimbs(NMul(a, Tail(b)), 1))

RECURSIVE IntBitLen(_)
IntBitLen(n) == IF n = 0 THEN 0 ELSE 1 + IntBitLen(n \div 2)

NBitLen(a) ==
  IF a = <<>> THEN 0 ELSE LimbBits * (Len(a) - 1) + IntBitLen(a[Len(a)])

\* a * 2^n
NShl(a, n) == NShiftLimbs(NMulSmall(a, 2^(n % LimbBits)), n \div LimbBits)

\* floor(a / 2^n)
NShr(a, n) ==
  LET k == n \div LimbBits
      r == n % LimbBits
      m == Len(a) - k
      limb(i) == IF i <= Len(a) THEN a[i] ELSE 0
  IN  IF m <= 0 THEN <<>>
      ELSE NNorm([i \in 1..m |->
                    (limb(i + k) \div 2^r)
                    + (limb(i + k + 1) % 2^r) * 2^(LimbBits - r)])

\* a - floor(a / 2^n) * 2^n
NLow(a, n) ==
  LET k == n \div LimbBits
      r == n % LimbBits
  IN  IF Len(a) <= k THEN a
      ELSE NNorm(SubSeq(a, 1, k) \o <<a[k + 1] % 2^r>>)

NIsOdd(a) == a # <<>> /\ a[1] % 2 = 1

\* n steps of binary long division of the remainder r by d (r < d):
\* the pair of the n quotient bits, as an integer, and the new remainder
RECURSIVE NDivBits(_, _, _, _)
NDivBits(r, d, n, q) ==
  IF n = 0 THEN <<q, r>>
  ELSE LET r2 == NAdd(r, r)
       IN  IF NCmp(r2, d) >= 0
           THEN NDivBits(NSub(r2, d), d, n - 1, 2 * q + 1)
           ELSE NDivBits(r2, d, n - 1, 2 * q)

\* limbs more of the quotient, most significant first:
\* <<quotient limbs (little-endian), remainder>>
RECURSIVE NDivLimbs(_, _, _, _)
NDivLimbs(r, d, limbs, q) ==
  IF limbs = 0 THEN <<q, r>>
  ELSE LET s == NDivBits(r, d, LimbBits, 0)
       IN  NDivLimbs(s[2], d, limbs - 1, <<s[1]>> \o q)

(***************************************************************************)
(* Python floats.  A float is sign * man * 2^exp with man a natural of     *)
(* exactly Precision bits (or zero).  The exponent range of binary64 is    *)
(* not reached by the magnitudes of the model's inputs, so overflow and    *)
(* subnormals are not represented.                                         *)
(***************************************************************************)
Precision == 53

FZero == [sign |-> 0, man |-> <<>>, exp |-> 0]

\* the float nearest to (-1)^sign * man * 2^exp, ties to even
FRound(sign, man, exp) ==
  LET len == NBitLen(man)
  IN  IF len = 0 THEN FZero
      ELSE IF len <= Precision
      THEN [sign |-> sign, man |-> NShl(man, Precision - len),
            exp |-> exp - (Precision - len)]
      ELSE LET sh   == len - Precision
               q    == NShr(man, sh)
               rem  == NLow(man, sh)
               half == NShl(<<1>>, sh - 1)
               c    == NCmp(rem, half)
               up   == c > 0 \/ (c = 0 /\ NIsOdd(q))
               q1   == IF up THEN NAdd(q, <<1>>) ELSE q
           IN  IF NBitLen(q1) > Precision
               THEN [sign |-> sign, man |-> NShr(q1, 1), exp |-> exp + sh + 1]
               ELSE [sign |-> sign, man |-> q1, exp |-> exp + sh]

\* float(n) for a Python int n
FInt(n) == FRound(IF n < 0 THEN 1 ELSE 0, NFromInt(IF n < 0 THEN -n ELSE n), 0)

FNeg(x) == IF x.man = <<>> THEN x ELSE [x EXCEPT !.sign = 1 - x.sign]

\* -1, 0, 1 comparing the magnitudes of two floats
FMagCmp(x, y) ==
  IF x.man = <<>> THEN (IF y.man = <<>> THEN 0 ELSE -1)
  ELSE IF y.man = <<>> THEN 1
  ELSE IF x.exp < y.exp THEN -1
  ELSE IF x.exp > y.exp THEN 1
  ELSE NCmp(x.man, y.man)

\* -1, 0, 1 as x < y, x = y, x > y
FCmp(x, y) ==
  IF x.sign # y.sign THEN (IF x.sign = 1 THEN -1 ELSE 1)
  ELSE IF x.sign = 0 THEN FMagCmp(x, y) ELSE FMagCmp(y, x)

FLt(x, y) == FCmp(x, y) < 0

FLe(x, y) == FCmp(x, y) <= 0

\* x + y
FAdd(x, y) ==
  IF x.man = <<>> THEN y
  ELSE IF y.man = <<>> THEN x
  ELSE LET e  == IF x.exp < y.exp THEN x.exp ELSE y.exp
           mx == NShl(x.man, x.exp - e)
           my == NShl(y.man, y.exp - e)
       IN  IF x.sign = y.sign THEN FRound(x.sign, NAdd(mx, my), e)
           ELSE IF NCmp(mx, my) >= 0 THEN FRound(x.sign, NSub(mx, my), e)
           ELSE FRound(y.sign, NSub(my, mx), e)

\* x - y
FSub(x, y) == FAdd(x, FNeg(y))

\* x * y
FMul(x, y) ==
  IF x.man = <<>> \/ y.man = <<>> THEN FZero
  ELSE FRound((x.sign + y.sign) % 2, NMul(x.man, y.man), x.exp + y.exp)

\* x / y for y # 0: four limbs of quotient below the leading bit, and a
\* sticky bit for the remainder, are rounded to Precision bits
FDiv(x, y) ==
  IF x.man = <<>> THEN FZero
  ELSE LET lead == IF NCmp(x.man, y.man) >= 0 THEN 1 ELSE 0
           r0   == IF lead = 1 THEN NSub(x.man, y.man) ELSE x.man
           s    == NDivLimbs(r0, y.man, 4, <<>>)
           q    == NNorm(s[1] \o <<lead>>)
           st   == IF s[2] = <<>> THEN <<>> ELSE <<1>>
       IN  FRound((x.sign + y.sign) % 2, NAdd(NShl(q, 1), st),
                  x.exp - y.exp - 4 * LimbBits - 1)

(***************************************************************************)
(* The inputs.  The widgets deliver the voltage of the radio button, three *)
(* floats of at least 1.0 and, for each of the four stages, an integer     *)
(* brightness in 0..100 and an integer duration in 0..12.                  *)
(***************************************************************************)
NumStages == 4

\* the (brightness, duration) pairs a stage is drawn from: a dark stage that
\* takes time, two lit stages, and a stage of no duration
StageOptions == { <<0, 2>>, <<100, 3>>, <<10, 9>>, <<30, 0>> }

\* the default dimming profile of the sliders
DefaultProfile == << <<100, 4>>, <<50, 6>>, <<30, 6>>, <<0, 0>> >>

Profiles == [1..NumStages -> StageOptions] \cup {DefaultProfile}

\* (voltage in tenths of a volt, load power, battery capacity, panel wattage)
HardwareList ==
  << <<128, 40, 480, 120>>, <<256, 1, 3, 5>>, <<128, 40, 50, 120>>,
     <<256, 7, 100, 1>> >>

NumHardware == 2

HardwareSet == {HardwareList[k] : k \in 1..NumHardware}

VARIABLES
  system_voltage,       \* float(voltage_option)
  load_power,           \* number_input, watts
  battery_capacity_wh,  \* number_input, watt hours
  solar_panel_wattage,  \* number_input, watts
  profile,              \* the slider values: profile[i] = <<brightness, duration>>
  pc,                   \* the section of the script that runs next
  i,                    \* the loop variable of the running for loop
  j,                    \* the count of finished iterations of the inner loop
  stage_data, total_energy,
  solar_energy, energy_balance, battery_remaining,
  required_battery_wh, required_battery_ah,
  hourly_soc, soc, hr_pointer, charge_per_hour

vars == << system_voltage, load_power, battery_capacity_wh, solar_panel_wattage,
           profile, pc, i, j, stage_data, total_energy, solar_energy,
           energy_balance, battery_remaining, required_battery_wh,
           required_battery_ah, hourly_soc, soc, hr_pointer, charge_per_hour >>

inputs == << system_voltage, load_power, battery_capacity_wh,
             solar_panel_wattage, profile >>

results == << solar_energy, energy_balance, battery_remaining,
              required_battery_wh, required_battery_ah >>

simulation == << hourly_soc, soc, hr_pointer, charge_per_hour >>

solar_efficiency == FDiv(FInt(75), FInt(100))

sun_hours == 5

dod == FDiv(FInt(8), FInt(10))

NightEnd == 16

ChargeHours == 5

DayEnd == 24

\* the state after the inputs are read and the accumulators are set
Init ==
  /\ \E hw \in HardwareSet :
       /\ system_voltage = FDiv(FInt(hw[1]), FInt(10))
       /\ load_power = FInt(hw[2])
       /\ battery_capacity_wh = FInt(hw[3])
       /\ solar_panel_wattage = FInt(hw[4])
  /\ profile \in Profiles
  /\ solar_energy = FMul(FMul(solar_panel_wattage, FInt(sun_hours)), solar_efficiency)
  /\ pc = "stages"
  /\ i = 1
  /\ j = 0
  /\ stage_data = <<>>
  /\ total_energy = FZero
  /\ energy_balance = FZero
  /\ battery_remaining = FZero
  /\ required_battery_wh = FZero
  /\ required_battery_ah = FZero
  /\ hourly_soc = <<>>
  /\ soc = FInt(100)
  /\ hr_pointer = 0
  /\ charge_per_hour = FZero

brightness == profile[i][1]

duration == profile[i][2]

\* the division by 100 forgotten
StageEnergyPercent(load, b, d) == FMul(FMul(load, FInt(b)), FInt(d))

\* load_power * (brightness / 100) * duration
StageEnergy(load, b, d) ==
  FMul(FMul(load, FDiv(FInt(b), FInt(100))), FInt(d))

\* total_energy = energy in the place of total_energy += energy
StageLitAssign ==
  /\ pc = "stages"
  /\ duration > 0 /\ brightness > 0
  /\ LET energy == StageEnergy(load_power, brightness, duration)
     IN  /\ stage_data' = Append(stage_data,
                                 [Stage |-> i, Brightness |-> brightness,
                                  Duration |-> duration, Energy |-> energy])
         /\ total_energy' = energy
  /\ i' = IF i = NumStages THEN 1 ELSE i + 1
  /\ pc' = IF i = NumStages THEN "results" ELSE "stages"
  /\ UNCHANGED << inputs, j, results, simulation >>

\* one pass of the stage loop, a stage that is lit for some time
StageLit ==
  /\ pc = "stages"
  /\ duration > 0 /\ brightness > 0
  /\ LET energy == StageEnergy(load_power, brightness, duration)
     IN  /\ stage_data' = Append(stage_data,
                                 [Stage |-> i, Brightness |-> brightness,
                                  Duration |-> duration, Energy |-> energy])
         /\ total_energy' = FAdd(total_energy, energy)
  /\ i' = IF i = NumStages THEN 1 ELSE i + 1
  /\ pc' = IF i = NumStages THEN "results" ELSE "stages"
  /\ UNCHANGED << inputs, j, results, simulation >>

\* one pass of the stage loop, a stage of no duration or no brightness
StageDark ==
  /\ pc = "stages"
  /\ ~(duration > 0 /\ brightness > 0)
  /\ stage_data' = Append(stage_data,
                          [Stage |-> i, Brightness |-> brightness,
                           Duration |-> duration, Energy |-> FZero])
  /\ i' = IF i = NumStages THEN 1 ELSE i + 1
  /\ pc' = IF i = NumStages THEN "results" ELSE "stages"
  /\ UNCHANGED << inputs, j, total_energy, results, simulation >>

\* the operands of the energy balance exchanged
ResultsSwapped ==
  /\ pc = "results"
  /\ energy_balance' = FSub(total_energy, solar_energy)
  /\ battery_remaining' = FSub(battery_capacity_wh, total_energy)
  /\ required_battery_wh' = FDiv(total_energy, dod)
  /\ required_battery_ah' = FDiv(required_battery_wh', system_voltage)
  /\ hourly_soc' = <<>>
  /\ soc' = FInt(100)
  /\ hr_pointer' = 0
  /\ pc' = "discharge"
  /\ UNCHANGED << inputs, i, j, stage_data, total_energy, solar_energy,
                  charge_per_hour >>

\* battery and solar results, then the start of the simulation
Results ==
  /\ pc = "results"
  /\ energy_balance' = FSub(solar_energy, total_energy)
  /\ battery_remaining' = FSub(battery_capacity_wh, total_energy)
  /\ required_battery_wh' = FDiv(total_energy, dod)
  /\ required_battery_ah' = FDiv(required_battery_wh', system_voltage)
  /\ hourly_soc' = <<>>
  /\ soc' = FInt(100)
  /\ hr_pointer' = 0
  /\ pc' = "discharge"
  /\ UNCHANGED << inputs, i, j, stage_data, total_energy, solar_energy,
                  charge_per_hour >>

\* the floor at 0 left out
Max0None(x) == x

\* max(soc, 0)
Max0(x) == IF x.sign = 1 THEN FZero ELSE x

\* the ceiling at 100 left out
Min100None(x) == x

\* min(soc, 100)
Min100(x) == IF FLt(FInt(100), x) THEN FInt(100) ELSE x

\* the drop as a fraction of the capacity, not as a percentage
DischargeStepFraction(s, load, b, cap) ==
  LET consumption == FMul(load, FDiv(FInt(b), FInt(100)))
  IN  Max0(FSub(s, FDiv(consumption, cap)))

\* the floor at 0 taken before the hour's drop, not after it
DischargeStepFloorFirst(s, load, b, cap) ==
  LET consumption == FMul(load, FDiv(FInt(b), FInt(100)))
  IN  FSub(Max0(s), FMul(FDiv(consumption, cap), FInt(100)))

\* the state of charge after an hour at brightness b
DischargeStep(s, load, b, cap) ==
  LET consumption == FMul(load, FDiv(FInt(b), FInt(100)))
  IN  Max0(FSub(s, FMul(FDiv(consumption, cap), FInt(100))))

\* one hour of a stage
DischargeHour ==
  /\ pc = "discharge"
  /\ j < stage_data[i].Duration
  /\ soc' = DischargeStep(soc, load_power, stage_data[i].Brightness,
                          battery_capacity_wh)
  /\ hourly_soc' = Append(hourly_soc, soc')
  /\ hr_pointer' = hr_pointer + 1
  /\ j' = j + 1
  /\ UNCHANGED << inputs, pc, i, stage_data, total_energy, results,
                  charge_per_hour >>

\* the hours of a stage are over: on to the next stage, or out of the loop
NextStage ==
  /\ pc = "discharge"
  /\ j >= stage_data[i].Duration
  /\ j' = 0
  /\ i' = IF i = NumStages THEN 1 ELSE i + 1
  /\ pc' = IF i = NumStages THEN "hold" ELSE "discharge"
  /\ UNCHANGED << inputs, stage_data, total_energy, results, simulation >>

\* the rest of the night, up to hour 16
NightHold ==
  /\ pc = "hold"
  /\ hr_pointer < NightEnd
  /\ hourly_soc' = Append(hourly_soc, soc)
  /\ hr_pointer' = hr_pointer + 1
  /\ UNCHANGED << inputs, pc, i, j, stage_data, total_energy, results, soc,
                  charge_per_hour >>

\* the solar efficiency left out
ChargePerHourFull(panel, cap) == FMul(FDiv(panel, cap), FInt(100))

\* (solar_panel_wattage * solar_efficiency / battery_wh) * 100
ChargePerHour(panel, cap) ==
  FMul(FDiv(FMul(panel, solar_efficiency), cap), FInt(100))

\* the night is over: the charge of an hour of sun
StartCharge ==
  /\ pc = "hold"
  /\ hr_pointer >= NightEnd
  /\ charge_per_hour' = ChargePerHour(solar_panel_wattage, battery_capacity_wh)
  /\ j' = 0
  /\ pc' = "charge"
  /\ UNCHANGED << inputs, i, stage_data, total_energy, results, hourly_soc,
                  soc, hr_pointer >>

\* soc += charge_per_hour; soc = min(soc, 100)
ChargeStep(s, c) == Min100(FAdd(s, c))

\* one of the five hours of sun
ChargeHour ==
  /\ pc = "charge"
  /\ j < ChargeHours
  /\ soc' = ChargeStep(soc, charge_per_hour)
  /\ hourly_soc' = Append(hourly_soc, soc')
  /\ hr_pointer' = hr_pointer + 1
  /\ j' = j + 1
  /\ pc' = IF j + 1 = ChargeHours THEN "idle" ELSE "charge"
  /\ UNCHANGED << inputs, i, stage_data, total_energy, results,
                  charge_per_hour >>

\* the rest of the day with the bound of the loop off by one
DayIdleInclusive ==
  /\ pc = "idle"
  /\ hr_pointer <= DayEnd
  /\ hourly_soc' = Append(hourly_soc, soc)
  /\ hr_pointer' = hr_pointer + 1
  /\ UNCHANGED << inputs, pc, i, j, stage_data, total_energy, results, soc,
                  charge_per_hour >>

\* the rest of the day, up to hour 24
DayIdle ==
  /\ pc = "idle"
  /\ hr_pointer < DayEnd
  /\ hourly_soc' = Append(hourly_soc, soc)
  /\ hr_pointer' = hr_pointer + 1
  /\ UNCHANGED << inputs, pc, i, j, stage_data, total_energy, results, soc,
                  charge_per_hour >>

\* ax2.plot(range(24), hourly_soc) with one sample for each hour
PlotOk ==
  /\ pc = "idle"
  /\ hr_pointer >= DayEnd
  /\ Len(hourly_soc) = DayEnd
  /\ pc' = "done"
  /\ UNCHANGED << inputs, i, j, stage_data, total_energy, results, simulation >>

\* ax2.plot(range(24), hourly_soc) raises on sequences of different
\* lengths, and the except clause reports the error
PlotError ==
  /\ pc = "idle"
  /\ hr_pointer >= DayEnd
  /\ Len(hourly_soc) # DayEnd
  /\ pc' = "error"
  /\ UNCHANGED << inputs, i, j, stage_data, total_energy, results, simulation >>

Next ==
  \/ StageLit
  \/ StageDark
  \/ Results
  \/ DischargeHour
  \/ NextStage
  \/ NightHold
  \/ StartCharge
  \/ ChargeHour
  \/ DayIdle
  \/ PlotOk
  \/ PlotError

Spec == Init /\ [][Next]_vars

(***************************************************************************)
(* The energy accounting as a function of the inputs: the total that the   *)
(* stage loop leaves for a load and a profile.                             *)
(***************************************************************************)
RECURSIVE TotalEnergyUpTo(_, _, _)
TotalEnergyUpTo(load, prof, n) ==
  IF n = 0 THEN FZero
  ELSE IF prof[n][2] > 0 /\ prof[n][1] > 0
  THEN FAdd(TotalEnergyUpTo(load, prof, n - 1),
            StageEnergy(load, prof[n][1], prof[n][2]))
  ELSE TotalEnergyUpTo(load, prof, n - 1)

TotalEnergy(load, prof) == TotalEnergyUpTo(load, prof, NumStages)

(***************************************************************************)
(* Vocabulary of the properties.                                           *)
(***************************************************************************)
Hundred == FInt(100)

FAbs(x) == [x EXCEPT !.sign = 0]

\* x * 2^n, exact
FScale(x, n) == IF x.man = <<>> THEN x ELSE [x EXCEPT !.exp = @ + n]

\* |x - y| <= tol
FWithin(x, y, tol) == FLe(FAbs(FSub(x, y)), tol)

Terminated == pc \in {"done", "error"}

\* the hours of the discharge phase: the sum of the four durations
DischargeHours == profile[1][2] + profile[2][2] + profile[3][2] + profile[4][2]

\* the number of samples when the night-hold phase is over
HoldEnd == IF DischargeHours > NightEnd THEN DischargeHours ELSE NightEnd

\* the number of samples when the charging phase is over
ChargeEnd == HoldEnd + ChargeHours

Recorded == Len(hourly_soc)

StageOrders == {p \in [1..NumStages -> 1..NumStages] :
                  \A a, b \in 1..NumStages : a # b => p[a] # p[b]}

\* the profiles with the stages of the profile in another order
Reorderings == {[k \in 1..NumStages |-> profile[p[k]]] : p \in StageOrders}

(***************************************************************************)
(* C1: every sample of the SOC timeline is at least 0 and at most 100, in  *)
(* the discharge, night-hold, charging and day-idle phases alike.          *)
(***************************************************************************)
C1_SocInRange ==
  \A k \in 1..Recorded :
    hourly_soc[k].sign = 0 /\ FLe(hourly_soc[k], Hundred)

\* a finished timeline that was floored at 0 in the night and capped at 100
\* by one hour of sun
C1_Witness ==
  /\ Terminated
  /\ hourly_soc[HoldEnd] = FZero
  /\ FLt(Hundred, FAdd(hourly_soc[HoldEnd], charge_per_hour))
  /\ hourly_soc[HoldEnd + 1] = Hundred

(***************************************************************************)
(* C2: when the simulation has finished, the timeline holds exactly 24     *)
(* samples, whatever the durations of the stages.                          *)
(***************************************************************************)
C2_Always24 == Terminated => Recorded = DayEnd

(***************************************************************************)
(* C3: the recorded energy of a stage is 0 when its duration or its        *)
(* brightness is 0 and load_power * (brightness / 100) * duration          *)
(* otherwise, and the total is the sum of the four recorded energies.      *)
(***************************************************************************)
C3_StageEnergy ==
  pc \in {"stages", "results"} =>
    /\ \A k \in 1..Len(stage_data) :
         LET b == profile[k][1]
             d == profile[k][2]
         IN  /\ stage_data[k].Brightness = b
             /\ stage_data[k].Duration = d
             /\ stage_data[k].Energy =
                  IF d = 0 \/ b = 0 THEN FZero
                  ELSE FMul(FMul(load_power, FDiv(FInt(b), Hundred)), FInt(d))
    /\ pc = "results" =>
         total_energy = FAdd(FAdd(FAdd(stage_data[1].Energy,
                                       stage_data[2].Energy),
                                  stage_data[3].Energy),
                             stage_data[4].Energy)

\* all four stages recorded: one lit, one of brightness 0 that takes time,
\* one of no duration that is bright
C3_Witness ==
  /\ pc = "results"
  /\ \E k \in 1..NumStages : stage_data[k].Energy # FZero
  /\ \E k \in 1..NumStages :
       profile[k][1] = 0 /\ profile[k][2] > 0 /\ stage_data[k].Energy = FZero
  /\ \E k \in 1..NumStages :
       profile[k][1] > 0 /\ profile[k][2] = 0 /\ stage_data[k].Energy = FZero

(***************************************************************************)
(* C4: the total night energy is the same for every order of the four      *)
(* stages.  As stated this fails: the sum of floats is rounded at every    *)
(* addition, so another order can give a neighbouring float.  What holds   *)
(* is that the totals of two orders differ by at most 2^-50 of the total.  *)
(***************************************************************************)
C4_SameTotalAnyOrder ==
  pc = "results" =>
    \A prof \in Reorderings : TotalEnergy(load_power, prof) = total_energy

\* C4 as amended: the total of every order of the stages is within 2^-50
\* of the total of the given order, relative to that total
C4_TotalAnyOrderRounded ==
  pc = "results" =>
    \A prof \in Reorderings :
      FWithin(TotalEnergy(load_power, prof), total_energy,
              FScale(total_energy, -50))

\* the total of a profile of which another order gives another float
C4_Witness ==
  /\ pc = "results"
  /\ \E prof \in Reorderings : TotalEnergy(load_power, prof) # total_energy

(***************************************************************************)
(* C5: when the total night energy is 0, the samples of the hours 0..15    *)
(* are 100, the samples of the charging phase never decrease and never     *)
(* exceed 100, and every later sample equals the last one of the charging  *)
(* phase.                                                                  *)
(***************************************************************************)
C5_NoLoadTimeline ==
  (pc \notin {"stages", "results"} /\ total_energy = FZero) =>
    \A k \in 1..Recorded :
      /\ k <= NightEnd => hourly_soc[k] = Hundred
      /\ (k > HoldEnd /\ k <= ChargeEnd) =>
           /\ FLe(hourly_soc[k - 1], hourly_soc[k])
           /\ FLe(hourly_soc[k], Hundred)
      /\ k > ChargeEnd => hourly_soc[k] = hourly_soc[ChargeEnd]

\* a finished timeline of dark stages that took some hours of the night
C5_Witness ==
  /\ pc = "done"
  /\ total_energy = FZero
  /\ DischargeHours > 0
  /\ Recorded = DayEnd

(***************************************************************************)
(* C6: scenario A, the default inputs: 40 W, 480 Wh, 120 W, 12.8 V and     *)
(* the stages (100 %, 4 h), (50 %, 6 h), (30 %, 6 h), (0 %, 0 h) give a    *)
(* total of 352, a solar recovery of 450, a balance of 98, 128 remaining,  *)
(* a required battery of 440 Wh and of 34.375 Ah.                          *)
(***************************************************************************)
ScenarioA ==
  /\ profile = << <<100, 4>>, <<50, 6>>, <<30, 6>>, <<0, 0>> >>
  /\ load_power = FInt(40)
  /\ battery_capacity_wh = FInt(480)
  /\ solar_panel_wattage = FInt(120)
  /\ system_voltage = FDiv(FInt(128), FInt(10))

C6_ScenarioA ==
  (pc \notin {"stages", "results"} /\ ScenarioA) =>
    /\ total_energy = FInt(352)
    /\ solar_energy = FInt(450)
    /\ energy_balance = FInt(98)
    /\ battery_remaining = FInt(128)
    /\ required_battery_wh = FInt(440)
    /\ required_battery_ah = FDiv(FInt(34375), FInt(1000))

C6_Witness == pc = "done" /\ ScenarioA /\ required_battery_wh = FInt(440)

(***************************************************************************)
(* C7: no sample of the discharge phase or of the night-hold phase is      *)
(* negative, and once a sample of the discharge phase is 0 every later     *)
(* sample of these two phases is 0.                                        *)
(***************************************************************************)
C7_DepletedStaysAtZero ==
  \A k \in 1..Recorded :
    k <= HoldEnd =>
      /\ hourly_soc[k].sign = 0
      /\ (k <= DischargeHours /\ hourly_soc[k] = FZero) =>
           \A m \in (k + 1)..Recorded : m <= HoldEnd => hourly_soc[m] = FZero

\* a night that hits 0 in the discharge phase, goes on discharging under
\* load and then holds
C7_Witness ==
  /\ pc = "charge"
  /\ DischargeHours < NightEnd
  /\ profile[NumStages][1] > 0 /\ profile[NumStages][2] > 0
  /\ \E k \in 1..DischargeHours :
       /\ hourly_soc[k] = FZero
       /\ k + profile[NumStages][2] <= DischargeHours

(***************************************************************************)
(* C8: the charging phase appends exactly 5 samples, each the minimum of   *)
(* 100 and the sample before it plus                                       *)
(* (solar_panel_wattage * 0.75 / battery_capacity_wh) * 100; when that     *)
(* charge of one hour is 100 or more, the first of them is 100.            *)
(***************************************************************************)
C8_ChargingPhase ==
  LET c == FMul(FDiv(FMul(solar_panel_wattage, FDiv(FInt(3), FInt(4))),
                     battery_capacity_wh), Hundred)
  IN  /\ pc = "charge" => (Recorded = HoldEnd + j /\ j < ChargeHours)
      /\ pc = "idle" => (Recorded >= ChargeEnd /\ j = ChargeHours)
      /\ Terminated =>
           Recorded = (IF ChargeEnd > DayEnd THEN ChargeEnd ELSE DayEnd)
      /\ pc \in {"charge", "idle"} =>
           \A k \in (HoldEnd + 1)..Recorded :
             k <= ChargeEnd =>
               LET x == FAdd(hourly_soc[k - 1], c)
               IN  /\ hourly_soc[k] = (IF FLt(Hundred, x) THEN Hundred ELSE x)
                   /\ FLe(Hundred, c) => hourly_soc[k] = Hundred

\* the five hours of sun are over, the first of them took an empty battery
\* to 100 and the charge of an hour is 100 or more
C8_Witness ==
  /\ pc = "idle"
  /\ Recorded = ChargeEnd
  /\ FLe(Hundred, charge_per_hour)
  /\ hourly_soc[HoldEnd] = FZero
  /\ hourly_soc[HoldEnd + 1] = Hundred

(***************************************************************************)
(* C9: the finished timeline has exactly 24 samples when the durations of  *)
(* the stages sum to 16 or less, and more than 24 when they sum to more.   *)
(* As stated this fails: after 17, 18 or 19 hours of discharge the five    *)
(* hours of sun end at hour 24 or before, and the day-idle phase fills the *)
(* timeline up to 24 samples.  What holds: 24 samples when the durations   *)
(* sum to 19 or less, and the sum plus 5, more than 24, otherwise.         *)
(***************************************************************************)
C9_LengthByDischargeHours ==
  Terminated =>
    /\ DischargeHours <= NightEnd => Recorded = DayEnd
    /\ DischargeHours > NightEnd => Recorded > DayEnd

\* C9 as amended: 24 samples when the durations sum to 19 or less, the sum
\* plus 5 samples otherwise
C9_LengthByChargeEnd ==
  Terminated =>
    /\ DischargeHours + ChargeHours <= DayEnd => Recorded = DayEnd
    /\ DischargeHours + ChargeHours > DayEnd =>
         (Recorded = DischargeHours + ChargeHours /\ Recorded > DayEnd)

\* a finished timeline of 24 samples after more than 16 hours of discharge
C9_Witness ==
  /\ pc = "done"
  /\ DischargeHours > NightEnd
  /\ Recorded = DayEnd

(***************************************************************************)
(* C10: the SOC at the end of the discharge phase, and in the night-hold   *)
(* phase, is max(0, 100 * battery_remaining / battery_capacity), so that   *)
(* the SOC is 0 at the end of the night exactly when the total night       *)
(* energy is at least the capacity.  As stated this fails: the hourly      *)
(* subtractions are rounded, and a night that uses the whole capacity can  *)
(* end a rounding error above 0.  What holds is the equality up to 2^-30   *)
(* of a percentage point.                                                  *)
(***************************************************************************)
NightSamples ==
  {k \in 1..Recorded : k >= DischargeHours /\ k <= HoldEnd}

ExpectedNightSoc ==
  Max0(FDiv(FMul(Hundred, battery_remaining), battery_capacity_wh))

C10_NightSocIsRemaining ==
  pc \in {"hold", "charge"} =>
    LET expected == ExpectedNightSoc
    IN  \A k \in NightSamples :
          /\ hourly_soc[k] = expected
          /\ hourly_soc[k] = FZero <=> FLe(battery_capacity_wh, total_energy)

RoundingTolerance == FRound(0, <<1>>, -30)

\* C10 as amended: the samples from the end of the discharge phase to the end
\* of the night are within 2^-30 of max(0, 100 * remaining / capacity)
C10_NightSocIsRemainingRounded ==
  pc \in {"hold", "charge"} =>
    LET expected == ExpectedNightSoc
    IN  \A k \in NightSamples :
          /\ FWithin(hourly_soc[k], expected, RoundingTolerance)
          /\ FLe(battery_capacity_wh, total_energy) =>
               FLe(hourly_soc[k], RoundingTolerance)
          /\ hourly_soc[k] = FZero => FLe(expected, RoundingTolerance)

\* the night used exactly the capacity and ended a rounding error above 0
C10_Witness ==
  /\ pc = "charge"
  /\ total_energy = battery_capacity_wh
  /\ hourly_soc[HoldEnd] # FZero
  /\ FLe(hourly_soc[HoldEnd], RoundingTolerance)

====
